---- MODULE Spec2Model ----
(***************************************************************************)
(* Model of the injector package (tkrajina/go-injector): the registry      *)
(* (WithObject / WithNamedObject), the resolver (getCandidatesForField /   *)
(* inject), the lifecycle manager (InitializeGraph) and the shutdown       *)
(* coordinator (Stop / cleanCleanable).                                    *)
(*                                                                         *)
(* The container is driven by one caller (the goroutine that owns the      *)
(* Injector).  A panic raised by logAndPanic unwinds the operation; the    *)
(* caller may recover it (as the package's tests do) and go on using the   *)
(* container, so a panic leaves the caller idle with lastPanic set.        *)
(*                                                                         *)
(* The client program is a fixed universe of struct types and instances,   *)
(* shaped after the package's tests (TestInlineOverwritingFields,          *)
(* TestNamed, TestStopping).  All tagged fields are exported, so           *)
(* reflector's Set fails only on a value whose type is not assignable.     *)
(***************************************************************************)
EXTENDS Integers, Sequences, FiniteSets, TLC

\* ------------------------------------------------------------------ bounds
MaxObjects == 2

\* ------------------------------------------------- the client's type universe
\* The nil pointer / nil interface value.
Nil == 0

\* The instances the client may register: pointers 1..4.
Instances == 1..4

\* reflect.TypeOf(value) of each registrable pointer.
TypeOf(v) == <<"*Logger", "*Logger", "*Store", "*Service">>[v]

\* Struct type a pointer type points to.
ElemOf(t) ==
  CASE t = "*Logger" -> "Logger"
    [] t = "*Store" -> "Store"
    [] t = "*Service" -> "Service"

\* Names the client passes to WithNamedObject ("" is the invalid empty name).
Names == {"", "db"}

\* Declared fields of each struct type, in declaration order.  found is
\* whether the field carries an `inject` tag, tag is the tag's value.
\*   Logger  struct{}
\*   Store   struct{ C Cleaner `inject:""`; L *Logger `inject:"db"` }
\*   Inner   struct{ L *Logger `inject:""`; C Cleaner `inject:""`; N int }
\*   Mid     struct{ Inner `inject:"inline"`; L *Logger `inject:""` }
\*   Service struct{ Mid `inject:"inline"` }
Fields(T) ==
  CASE T = "Logger" -> <<>>
    [] T = "Store" ->
         << [name |-> "C", found |-> TRUE, tag |-> "", kind |-> "iface", type |-> "Cleaner"],
            [name |-> "L", found |-> TRUE, tag |-> "db", kind |-> "ptr", type |-> "*Logger"] >>
    [] T = "Inner" ->
         << [name |-> "L", found |-> TRUE, tag |-> "", kind |-> "ptr", type |-> "*Logger"],
            [name |-> "C", found |-> TRUE, tag |-> "", kind |-> "iface", type |-> "Cleaner"],
            [name |-> "N", found |-> FALSE, tag |-> "", kind |-> "int", type |-> "int"] >>
    [] T = "Mid" ->
         << [name |-> "Inner", found |-> TRUE, tag |-> "inline", kind |-> "struct", type |-> "Inner"],
            [name |-> "L", found |-> TRUE, tag |-> "", kind |-> "ptr", type |-> "*Logger"] >>
    [] T = "Service" ->
         << [name |-> "Mid", found |-> TRUE, tag |-> "inline", kind |-> "struct", type |-> "Mid"] >>

FieldNames(T) == { Fields(T)[k].name : k \in 1..Len(Fields(T)) }

FieldOf(T, n) == Fields(T)[CHOOSE k \in 1..Len(Fields(T)) : Fields(T)[k].name = n]

\* Method sets: which pointer types implement the two capabilities.
\*   (*Logger).Init, (*Store).Clean, (*Service).Init, (*Service).Clean
Initializers == {"*Logger", "*Service"}

Cleaners == {"*Store", "*Service"}

IsInitializer(v) == TypeOf(v) \in Initializers

IsCleaner(v) == TypeOf(v) \in Cleaners

\* reflect.Type.AssignableTo: identical types, or the type implements the
\* interface type of the field.
AssignableTo(t, ft) ==
  \/ t = ft
  \/ ft = "Cleaner" /\ t \in Cleaners
  \/ ft = "Initializer" /\ t \in Initializers

\* The zero value of a type: reflect.New(T).Elem().
RECURSIVE Zero(_)
Zero(T) ==
  [n \in FieldNames(T) |->
     IF FieldOf(T, n).kind = "struct" THEN Zero(FieldOf(T, n).type) ELSE Nil]

\* The value the client constructed each instance with: zero values, except
\* that the Service was built with the untagged counter Mid.Inner.N set.
PresetN == 7

InitialValue(v) ==
  IF TypeOf(v) = "*Service"
  THEN [Zero("Service") EXCEPT !["Mid"]["Inner"]["N"] = PresetN]
  ELSE Zero(ElemOf(TypeOf(v)))

\* The listener goroutines: every WithCleanBeforeShutdown call starts one.
Listeners == {"sig", "sig2"}

\* The goroutines that may call Stop: the caller, and the signal listeners
\* started by WithCleanBeforeShutdown.
Threads == {"main"} \cup Listeners

\* exitStatus while the process is running.
NotExited == -1

\* ------------------------------------------------------------------ state
VARIABLES
  objects,      \* Injector.objects: sequence of [Name, Value]
  heap,         \* the registered instances' field values, by pointer
  initialized,  \* instances whose Init hook has run to success
  pc,           \* where the caller is: "idle", "inject", "init"
  idx,          \* loop index of the loop the caller is in (1-based)
  injected,     \* registry indices inject was called on in the current call
  wireLog,      \* tagged fields examined by the latest inject(o) call, in order
  initLog,      \* registry indices whose Init was invoked in the current call
  lastPanic,    \* outcome of the caller's last finished operation
  stopped,      \* Injector.stopped
  spc,          \* per thread, its position inside Stop
  sexit,        \* per thread, the exit argument of its Stop call
  tasks,        \* the cleanup tasks launched by Stop, by <<thread, registry index>>
  errorsChan,   \* per thread, the errors buffered in its Stop call's errorsChan
  errorsCap,    \* per thread, the capacity errorsChan was made with
  wg,           \* per thread, the WaitGroup counter of its Stop call
  cleanCalls,   \* per instance, how many times Clean() was invoked
  cleaned,      \* instances whose Clean hook has run to success
  stopLog,      \* per thread, the lines its latest Stop call logged
  exitStatus    \* status the process exited with, NotExited while it runs

regVars == <<objects, heap, initialized, injected, wireLog, initLog>>

stopVars == <<stopped, spc, sexit, tasks, errorsChan, errorsCap, wg, cleanCalls, cleaned,
              stopLog, exitStatus>>

vars == <<objects, heap, initialized, pc, idx, injected, wireLog, initLog, lastPanic,
          stopped, spc, sexit, tasks, errorsChan, errorsCap, wg, cleanCalls, cleaned,
          stopLog, exitStatus>>

\* What logAndPanic reported: the message's kind and its %T / %s / %d
\* arguments; obj is the registry index the caller was working on.
NoPanic == [kind |-> "none", owner |-> "", field |-> "", type |-> "", count |-> 0, obj |-> 0]

Panic(kind, owner, field, type, count) ==
  [kind |-> kind, owner |-> owner, field |-> field, type |-> type, count |-> count, obj |-> 0]

\* New(): an empty registry, stopped = false.
Init ==
  /\ objects = <<>>
  /\ heap = [v \in Instances |-> InitialValue(v)]
  /\ initialized = {}
  /\ pc = "idle"
  /\ idx = 0
  /\ injected = <<>>
  /\ wireLog = <<>>
  /\ initLog = <<>>
  /\ lastPanic = NoPanic
  /\ stopped = FALSE
  /\ spc = [c \in Threads |-> "none"]
  /\ sexit = [c \in Threads |-> FALSE]
  /\ tasks = <<>>
  /\ errorsChan = [c \in Threads |-> {}]
  /\ errorsCap = [c \in Threads |-> 0]
  /\ wg = [c \in Threads |-> 0]
  /\ cleanCalls = [v \in Instances |-> 0]
  /\ cleaned = {}
  /\ stopLog = [c \in Threads |-> <<>>]
  /\ exitStatus = NotExited

\* --------------------------------------------------------------- registry
\* Variant of UnnamedTypeExists: compares the pointers, not their types.
UnnamedTypeExists_ByPointer(objs, v) ==
  \E k \in 1..Len(objs) : objs[k].Name = "" /\ objs[k].Value = v

\* WithObject's scan: an unnamed entry of the same concrete type exists.
UnnamedTypeExists(objs, v) ==
  \E k \in 1..Len(objs) : objs[k].Name = "" /\ TypeOf(objs[k].Value) = TypeOf(v)

\* Variant of NameExists: the scan tests `o.Name == ""` where it should
\* test `o.Name != ""`, so it never reaches the comparison of the names.
NameExists_InvertedTest(objs, name) ==
  \E k \in 1..Len(objs) : objs[k].Name = "" /\ objs[k].Name = name

\* WithNamedObject's scan: an entry with that name exists.
NameExists(objs, name) ==
  \E k \in 1..Len(objs) : objs[k].Name # "" /\ objs[k].Name = name

\* WithObject(object) (WithObjects calls it once per argument).
WithObject(v) ==
  /\ pc = "idle"
  /\ Len(objects) < MaxObjects
  /\ IF UnnamedTypeExists(objects, v)
     THEN /\ lastPanic' = Panic("TypeExists", TypeOf(v), "", "", 0)
          /\ UNCHANGED objects
     ELSE /\ objects' = Append(objects, [Name |-> "", Value |-> v])
          /\ lastPanic' = NoPanic
  /\ UNCHANGED <<heap, initialized, pc, idx, injected, wireLog, initLog, stopVars>>

\* WithNamedObject(name, obj).
WithNamedObject(name, v) ==
  /\ pc = "idle"
  /\ Len(objects) < MaxObjects
  /\ IF name = ""
     THEN /\ lastPanic' = Panic("NoName", "", "", "", 0)
          /\ UNCHANGED objects
     ELSE IF NameExists(objects, name)
     THEN /\ lastPanic' = Panic("NameExists", name, "", "", 0)
          /\ UNCHANGED objects
     ELSE /\ objects' = Append(objects, [Name |-> name, Value |-> v])
          /\ lastPanic' = NoPanic
  /\ UNCHANGED <<heap, initialized, pc, idx, injected, wireLog, initLog, stopVars>>

\* AllObjects(): the registered values in registration order.
AllObjects(objs) == [k \in 1..Len(objs) |-> objs[k].Value]

\* --------------------------------------------------------------- resolver
\* Variant of getCandidatesForField: the unnamed case leaves out the test
\* `i.objects[m].Name == ""`.
getCandidatesForField_NoNameTest(objs, fld, tag) ==
  IF tag = ""
  THEN SelectSeq(objs, LAMBDA o : AssignableTo(TypeOf(o.Value), fld.type))
  ELSE IF tag = "inline"
  THEN <<>>
  ELSE SelectSeq(objs, LAMBDA o : o.Name = tag)

\* Variant of getCandidatesForField: a named field also takes the unnamed
\* objects of an assignable type.
getCandidatesForField_NamedFallsBack(objs, fld, tag) ==
  IF tag = ""
  THEN SelectSeq(objs, LAMBDA o : o.Name = "" /\ AssignableTo(TypeOf(o.Value), fld.type))
  ELSE IF tag = "inline"
  THEN <<>>
  ELSE SelectSeq(objs, LAMBDA o :
         o.Name = tag \/ (o.Name = "" /\ AssignableTo(TypeOf(o.Value), fld.type)))

\* Variant of getCandidatesForField: the unnamed scan starts at the second
\* registry entry.
getCandidatesForField_SkipsFirst(objs, fld, tag) ==
  IF tag = ""
  THEN SelectSeq(IF objs = <<>> THEN <<>> ELSE Tail(objs),
                 LAMBDA o : o.Name = "" /\ AssignableTo(TypeOf(o.Value), fld.type))
  ELSE IF tag = "inline"
  THEN <<>>
  ELSE SelectSeq(objs, LAMBDA o : o.Name = tag)

\* getCandidatesForField: the registered values a tagged field may take.
getCandidatesForField(objs, fld, tag) ==
  IF tag = ""
  THEN SelectSeq(objs, LAMBDA o : o.Name = "" /\ AssignableTo(TypeOf(o.Value), fld.type))
  ELSE IF tag = "inline"
  THEN <<>>
  ELSE SelectSeq(objs, LAMBDA o : o.Name = tag)

\* reflector's ObjField.Set: fails when the value cannot be assigned.
SetFails(fld, v) == ~AssignableTo(TypeOf(v), fld.type)

\* `inlineObj := reflect.New(fld.Type()).Interface()`: the value inject works
\* on for an inline field.
NewInline(fld, val) == Zero(fld.type)

\* Variant of SetInline: the wired substructure is not written back.
SetInline_NoWriteBack(val, fld, sub) == val

\* `fld.Set(reflect.ValueOf(inlineObj).Elem().Interface())`.
SetInline(val, fld, sub) == [val EXCEPT ![fld.name] = sub]

\* `fld.Set(candidates[0])`.
SetField(val, fld, v) == [val EXCEPT ![fld.name] = v]

\* inject(o), from field k of a struct of type T whose current value is val
\* and which sits at path (the field names leading to it) in the registered
\* object.  Returns the value the struct is left with, the panic that stopped
\* it (or NoPanic) and one event per tagged field it examined, in order.
RECURSIVE injectFrom(_, _, _, _, _)
injectFrom(objs, T, k, val, path) ==
  IF k > Len(Fields(T))
  THEN [val |-> val, panic |-> NoPanic, events |-> <<>>]
  ELSE
    LET fld == Fields(T)[k]
        ev(act) == << [path |-> path, field |-> fld.name, act |-> act] >>
    IN
    IF ~fld.found
    THEN injectFrom(objs, T, k + 1, val, path)
    ELSE IF fld.tag = "inline"
    THEN
      LET sub == injectFrom(objs, fld.type, 1, NewInline(fld, val[fld.name]),
                            Append(path, fld.name))
      IN
      IF sub.panic.kind # "none"
      THEN [val |-> val, panic |-> sub.panic, events |-> ev("inline") \o sub.events]
      ELSE
        LET rest == injectFrom(objs, T, k + 1, SetInline(val, fld, sub.val), path) IN
        [val |-> rest.val, panic |-> rest.panic,
         events |-> ev("inline") \o sub.events \o rest.events]
    ELSE
      LET cands == getCandidatesForField(objs, fld, fld.tag) IN
      IF Len(cands) = 0
      THEN [val |-> val, panic |-> Panic("NoCandidates", T, fld.name, fld.type, 0),
            events |-> ev("NoCandidates")]
      ELSE IF Len(cands) > 1
      THEN [val |-> val,
            panic |-> Panic("ManyCandidates", T, fld.name, fld.type, Len(cands)),
            events |-> ev("ManyCandidates")]
      ELSE IF SetFails(fld, cands[1].Value)
      THEN [val |-> val,
            panic |-> Panic("ErrorSetting", T, fld.name, TypeOf(cands[1].Value), 0),
            events |-> ev("ErrorSetting")]
      ELSE
        LET rest == injectFrom(objs, T, k + 1, SetField(val, fld, cands[1].Value), path) IN
        [val |-> rest.val, panic |-> rest.panic, events |-> ev("set") \o rest.events]

\* inject(o) for a registered pointer o.
inject(objs, hp, v) == injectFrom(objs, ElemOf(TypeOf(v)), 1, hp[v], <<>>)

\* ------------------------------------------------------- lifecycle manager
\* Variant of AfterInject: the wiring loop is left after its first iteration.
AfterInject_LeavesEarly(n) ==
  IF Len(objects) = 0 THEN [pc |-> "idle", idx |-> 0]
  ELSE [pc |-> "init", idx |-> 1]

\* Where InitializeGraph goes after its wiring loop has passed index n.
AfterInject(n) ==
  IF n < Len(objects) THEN [pc |-> "inject", idx |-> n + 1]
  ELSE IF Len(objects) = 0 THEN [pc |-> "idle", idx |-> 0]
  ELSE [pc |-> "init", idx |-> 1]

\* Where InitializeGraph goes after its initialization loop has passed index n.
AfterInit(n) ==
  IF n < Len(objects) THEN [pc |-> "init", idx |-> n + 1]
  ELSE [pc |-> "idle", idx |-> 0]

\* InitializeGraph(): entry.
InitializeGraph ==
  /\ pc = "idle"
  /\ injected' = <<>>
  /\ wireLog' = <<>>
  /\ initLog' = <<>>
  /\ lastPanic' = NoPanic
  /\ pc' = AfterInject(0).pc
  /\ idx' = AfterInject(0).idx
  /\ UNCHANGED <<objects, heap, initialized, stopVars>>

\* Variant of InjectObject: a failed inject restores the object's fields.
InjectObject_RollsBack ==
  /\ pc = "inject"
  /\ LET v == objects[idx].Value
         r == inject(objects, heap, v)
     IN /\ heap' = IF r.panic.kind # "none" THEN heap ELSE [heap EXCEPT ![v] = r.val]
        /\ injected' = Append(injected, idx)
        /\ wireLog' = r.events
        /\ lastPanic' = [r.panic EXCEPT !.obj = IF r.panic.kind = "none" THEN 0 ELSE idx]
        /\ IF r.panic.kind # "none"
           THEN pc' = "idle" /\ idx' = 0
           ELSE pc' = AfterInject(idx).pc /\ idx' = AfterInject(idx).idx
  /\ UNCHANGED <<objects, initialized, initLog, stopVars>>

\* One iteration of `for n := range i.objects { i.inject(i.objects[n].Value) }`.
InjectObject ==
  /\ pc = "inject"
  /\ LET v == objects[idx].Value
         r == inject(objects, heap, v)
     IN /\ heap' = [heap EXCEPT ![v] = r.val]
        /\ injected' = Append(injected, idx)
        /\ wireLog' = r.events
        /\ lastPanic' = [r.panic EXCEPT !.obj = IF r.panic.kind = "none" THEN 0 ELSE idx]
        /\ IF r.panic.kind # "none"
           THEN pc' = "idle" /\ idx' = 0
           ELSE pc' = AfterInject(idx).pc /\ idx' = AfterInject(idx).idx
  /\ UNCHANGED <<objects, initialized, initLog, stopVars>>

\* One iteration of the initialization loop over an object without Init.
InitSkip ==
  /\ pc = "init"
  /\ ~IsInitializer(AllObjects(objects)[idx])
  /\ pc' = AfterInit(idx).pc
  /\ idx' = AfterInit(idx).idx
  /\ UNCHANGED <<objects, heap, initialized, injected, wireLog, initLog, lastPanic, stopVars>>

\* One iteration over an Initializer whose Init() returns nil.
InitHookOk ==
  /\ pc = "init"
  /\ IsInitializer(AllObjects(objects)[idx])
  /\ initLog' = Append(initLog, idx)
  /\ initialized' = initialized \cup {AllObjects(objects)[idx]}
  /\ pc' = AfterInit(idx).pc
  /\ idx' = AfterInit(idx).idx
  /\ UNCHANGED <<objects, heap, injected, wireLog, lastPanic, stopVars>>

\* Variant of InitHookErr: the error is reported but the loop goes on.
InitHookErr_GoesOn ==
  /\ pc = "init"
  /\ IsInitializer(AllObjects(objects)[idx])
  /\ initLog' = Append(initLog, idx)
  /\ lastPanic' = [Panic("InitError", TypeOf(AllObjects(objects)[idx]), "", "", 0)
                     EXCEPT !.obj = idx]
  /\ pc' = AfterInit(idx).pc
  /\ idx' = AfterInit(idx).idx
  /\ UNCHANGED <<objects, heap, initialized, injected, wireLog, stopVars>>

\* One iteration over an Initializer whose Init() returns an error.
InitHookErr ==
  /\ pc = "init"
  /\ IsInitializer(AllObjects(objects)[idx])
  /\ initLog' = Append(initLog, idx)
  /\ lastPanic' = [Panic("InitError", TypeOf(AllObjects(objects)[idx]), "", "", 0)
                     EXCEPT !.obj = idx]
  /\ pc' = "idle"
  /\ idx' = 0
  /\ UNCHANGED <<objects, heap, initialized, injected, wireLog, stopVars>>

\* ----------------------------------------------------- shutdown coordinator
\* The tasks Stop launches: one per registry index whose value is a Cleaner.
\* outer is the task goroutine (in cleanCleanable's select, returned from it,
\* or done: reported and wg.Done called); inner is the goroutine that calls
\* Clean() and then sends on errorChan / done; ret is what Clean() returned;
\* timer is timeoutChan: "armed" until time.After(maxDuration) delivers, then
\* "fired" when the hook had not returned at that moment and "firedLate"
\* when it had, and "off" once cleanCleanable has returned and nothing reads
\* the channel any more.
CleanerIndices(objs) == { k \in 1..Len(objs) : IsCleaner(objs[k].Value) }

NewTask(v) ==
  [obj |-> v, outer |-> "select", inner |-> "start", ret |-> "none", timer |-> "armed"]

TasksOf(c) == { t \in DOMAIN tasks : t[1] = c }

\* Variant of StopGuard: the guard tests and sets the flag in one step.
StopGuard_TestAndSet(exit) ==
  /\ pc = "idle"
  /\ spc["main"] = "none"
  /\ lastPanic' = NoPanic
  /\ stopped' = TRUE
  /\ IF stopped
     THEN /\ stopLog' = [stopLog EXCEPT !["main"] = <<"Stop already called">>]
          /\ UNCHANGED <<pc, spc, sexit>>
     ELSE /\ stopLog' = [stopLog EXCEPT !["main"] = <<>>]
          /\ sexit' = [sexit EXCEPT !["main"] = exit]
          /\ pc' = "stop"
          /\ spc' = [spc EXCEPT !["main"] = "launch"]
  /\ UNCHANGED <<regVars, idx, tasks, errorsChan, errorsCap, wg, cleanCalls,
                 cleaned, exitStatus>>

\* Stop(maxDuration, exit): the guard `if i.stopped { ...; return }`, by the
\* caller.  A stopped container logs the diagnostic and returns at once.
StopGuard(exit) ==
  /\ pc = "idle"
  /\ spc["main"] = "none"
  /\ lastPanic' = NoPanic
  /\ IF stopped
     THEN /\ stopLog' = [stopLog EXCEPT !["main"] = <<"Stop already called">>]
          /\ UNCHANGED <<pc, spc, sexit>>
     ELSE /\ stopLog' = [stopLog EXCEPT !["main"] = <<>>]
          /\ sexit' = [sexit EXCEPT !["main"] = exit]
          /\ pc' = "stop"
          /\ spc' = [spc EXCEPT !["main"] = "launch"]
  /\ UNCHANGED <<regVars, idx, stopped, tasks, errorsChan, errorsCap, wg, cleanCalls,
                 cleaned, exitStatus>>

\* Variant of StopLaunch: the assignment `i.stopped = true` is missing.
StopLaunch_FlagNotSet(c) ==
  /\ spc[c] = "launch"
  /\ exitStatus = NotExited
  /\ errorsChan' = [errorsChan EXCEPT ![c] = {}]
  /\ errorsCap' = [errorsCap EXCEPT ![c] = Len(AllObjects(objects))]
  /\ wg' = [wg EXCEPT ![c] = Cardinality({ k \in 1..Len(objects) : IsCleaner(objects[k].Value) })]
  /\ tasks' = [t \in DOMAIN tasks \cup
                       ({c} \X { k \in 1..Len(objects) : IsCleaner(objects[k].Value) }) |->
                 IF t[1] = c
                 THEN NewTask(objects[t[2]].Value)
                 ELSE tasks[t]]
  /\ spc' = [spc EXCEPT ![c] = "wait"]
  /\ UNCHANGED <<regVars, pc, idx, lastPanic, stopped, sexit, cleanCalls, cleaned, stopLog,
                 exitStatus>>

\* Variant of StopLaunch: errorsChan is made without a buffer.
StopLaunch_Unbuffered(c) ==
  /\ spc[c] = "launch"
  /\ exitStatus = NotExited
  /\ stopped' = TRUE
  /\ errorsChan' = [errorsChan EXCEPT ![c] = {}]
  /\ errorsCap' = [errorsCap EXCEPT ![c] = 0]
  /\ wg' = [wg EXCEPT ![c] = Cardinality(CleanerIndices(objects))]
  /\ tasks' = [t \in DOMAIN tasks \cup ({c} \X CleanerIndices(objects)) |->
                 IF t[1] = c THEN NewTask(objects[t[2]].Value) ELSE tasks[t]]
  /\ spc' = [spc EXCEPT ![c] = "wait"]
  /\ UNCHANGED <<regVars, pc, idx, lastPanic, sexit, cleanCalls, cleaned, stopLog,
                 exitStatus>>

\* Stop: `i.stopped = true`, make(errorsChan), and the loop that starts one
\* goroutine per Cleaner.
StopLaunch(c) ==
  /\ spc[c] = "launch"
  /\ exitStatus = NotExited
  /\ stopped' = TRUE
  /\ errorsChan' = [errorsChan EXCEPT ![c] = {}]
  /\ errorsCap' = [errorsCap EXCEPT ![c] = Len(AllObjects(objects))]
  /\ wg' = [wg EXCEPT ![c] = Cardinality(CleanerIndices(objects))]
  /\ tasks' = [t \in DOMAIN tasks \cup ({c} \X CleanerIndices(objects)) |->
                 IF t[1] = c THEN NewTask(objects[t[2]].Value) ELSE tasks[t]]
  /\ spc' = [spc EXCEPT ![c] = "wait"]
  /\ UNCHANGED <<regVars, pc, idx, lastPanic, sexit, cleanCalls, cleaned, stopLog,
                 exitStatus>>

\* cleanCleanable's inner goroutine calls cleaner.Clean().
HookCall(t) ==
  /\ t \in DOMAIN tasks
  /\ exitStatus = NotExited
  /\ tasks[t].inner = "start"
  /\ tasks' = [tasks EXCEPT ![t].inner = "running"]
  /\ cleanCalls' = [cleanCalls EXCEPT ![tasks[t].obj] = @ + 1]
  /\ UNCHANGED <<regVars, pc, idx, lastPanic, stopped, spc, sexit, errorsChan, errorsCap,
                 wg, cleaned, stopLog, exitStatus>>

\* Clean() returns nil: the inner goroutine goes on to `done <- true`.
HookReturnOk(t) ==
  /\ t \in DOMAIN tasks
  /\ exitStatus = NotExited
  /\ tasks[t].inner = "running"
  /\ tasks' = [tasks EXCEPT ![t].inner = "sendDone", ![t].ret = "nil"]
  /\ cleaned' = cleaned \cup {tasks[t].obj}
  /\ UNCHANGED <<regVars, pc, idx, lastPanic, stopped, spc, sexit, errorsChan, errorsCap,
                 wg, cleanCalls, stopLog, exitStatus>>

\* Variant of HookReturnErr: the error is not sent on errorChan, the inner
\* goroutine goes straight to `done <- true`.
HookReturnErr_NoErrorSend(t) ==
  /\ t \in DOMAIN tasks
  /\ exitStatus = NotExited
  /\ tasks[t].inner = "running"
  /\ tasks' = [tasks EXCEPT ![t].inner = "sendDone", ![t].ret = "err"]
  /\ UNCHANGED <<regVars, pc, idx, lastPanic, stopped, spc, sexit, errorsChan, errorsCap,
                 wg, cleanCalls, cleaned, stopLog, exitStatus>>

\* Clean() returns an error: the inner goroutine goes on to `errorChan <- err`.
HookReturnErr(t) ==
  /\ t \in DOMAIN tasks
  /\ exitStatus = NotExited
  /\ tasks[t].inner = "running"
  /\ tasks' = [tasks EXCEPT ![t].inner = "sendErr", ![t].ret = "err"]
  /\ UNCHANGED <<regVars, pc, idx, lastPanic, stopped, spc, sexit, errorsChan, errorsCap,
                 wg, cleanCalls, cleaned, stopLog, exitStatus>>

\* select `case err := <-errorChan: return err`: the unbuffered send and the
\* receive meet; the inner goroutine goes on to `done <- true`.
SelectError(t) ==
  /\ t \in DOMAIN tasks
  /\ exitStatus = NotExited
  /\ tasks[t].outer = "select"
  /\ tasks[t].inner = "sendErr"
  /\ tasks' = [tasks EXCEPT ![t].outer = "err", ![t].inner = "sendDone",
                            ![t].timer = "off"]
  /\ UNCHANGED <<regVars, pc, idx, lastPanic, stopped, spc, sexit, errorsChan, errorsCap,
                 wg, cleanCalls, cleaned, stopLog, exitStatus>>

\* select `case <-done: return nil`: the inner goroutine ends.
SelectDone(t) ==
  /\ t \in DOMAIN tasks
  /\ exitStatus = NotExited
  /\ tasks[t].outer = "select"
  /\ tasks[t].inner = "sendDone"
  /\ tasks' = [tasks EXCEPT ![t].outer = "nil", ![t].inner = "end", ![t].timer = "off"]
  /\ UNCHANGED <<regVars, pc, idx, lastPanic, stopped, spc, sexit, errorsChan, errorsCap,
                 wg, cleanCalls, cleaned, stopLog, exitStatus>>

\* time.After(maxDuration) delivers on timeoutChan, whatever the two
\* goroutines are doing.  Nobody reads timeoutChan once the select is over.
TimerFire(t) ==
  /\ t \in DOMAIN tasks
  /\ exitStatus = NotExited
  /\ tasks[t].outer = "select"
  /\ tasks[t].timer = "armed"
  /\ tasks' = [tasks EXCEPT ![t].timer =
                  IF tasks[t].ret = "none" THEN "fired" ELSE "firedLate"]
  /\ UNCHANGED <<regVars, pc, idx, lastPanic, stopped, spc, sexit, errorsChan, errorsCap,
                 wg, cleanCalls, cleaned, stopLog, exitStatus>>

\* Variant of SelectTimeout: one timer is shared by the call's tasks, and the
\* task that takes it ends the select of every task of the call.
SelectTimeout_SharedTimer(t) ==
  /\ t \in DOMAIN tasks
  /\ exitStatus = NotExited
  /\ tasks[t].outer = "select"
  /\ tasks[t].timer \in {"fired", "firedLate"}
  /\ tasks' = [u \in DOMAIN tasks |->
                 IF u[1] = t[1] /\ tasks[u].outer = "select"
                 THEN [tasks[u] EXCEPT !.outer = "timeout", !.timer = "off"]
                 ELSE tasks[u]]
  /\ UNCHANGED <<regVars, pc, idx, lastPanic, stopped, spc, sexit, errorsChan, errorsCap,
                 wg, cleanCalls, cleaned, stopLog, exitStatus>>

\* Variant of SelectTimeout: taking the timeout also ends the hook invocation.
SelectTimeout_CancelsHook(t) ==
  /\ t \in DOMAIN tasks
  /\ exitStatus = NotExited
  /\ tasks[t].outer = "select"
  /\ tasks[t].timer \in {"fired", "firedLate"}
  /\ tasks' = [tasks EXCEPT ![t].outer = "timeout", ![t].timer = "off",
                            ![t].inner = IF @ = "running" THEN "end" ELSE @]
  /\ UNCHANGED <<regVars, pc, idx, lastPanic, stopped, spc, sexit, errorsChan, errorsCap,
                 wg, cleanCalls, cleaned, stopLog, exitStatus>>

\* select `case <-timeoutChan: return errors.New(msg)`: taken when the timer
\* has delivered, whatever the inner goroutine is doing; with another case
\* ready too, select takes either.
SelectTimeout(t) ==
  /\ t \in DOMAIN tasks
  /\ exitStatus = NotExited
  /\ tasks[t].outer = "select"
  /\ tasks[t].timer \in {"fired", "firedLate"}
  /\ tasks' = [tasks EXCEPT ![t].outer = "timeout", ![t].timer = "off"]
  /\ UNCHANGED <<regVars, pc, idx, lastPanic, stopped, spc, sexit, errorsChan, errorsCap,
                 wg, cleanCalls, cleaned, stopLog, exitStatus>>

\* The task goroutine after cleanCleanable returned:
\* `if err != nil { errorsChan <- err }` and the deferred wg.Done().
TaskReport(t) ==
  /\ t \in DOMAIN tasks
  /\ exitStatus = NotExited
  /\ tasks[t].outer \in {"nil", "err", "timeout"}
  /\ IF tasks[t].outer = "nil"
     THEN UNCHANGED errorsChan
     ELSE /\ Cardinality(errorsChan[t[1]]) < errorsCap[t[1]]
          /\ errorsChan' = [errorsChan EXCEPT ![t[1]] =
                              @ \cup {[task |-> t[2], err |-> tasks[t].outer]}]
  /\ tasks' = [tasks EXCEPT ![t].outer = "done"]
  /\ wg' = [wg EXCEPT ![t[1]] = @ - 1]
  /\ UNCHANGED <<regVars, pc, idx, lastPanic, stopped, spc, sexit, errorsCap,
                 cleanCalls, cleaned, stopLog, exitStatus>>

\* Variant of Aggregate: the process exits with 0 whatever errorsChan holds.
Aggregate_ExitsZero(nerr, exit) ==
  IF exit
  THEN [log |-> <<"all cleaned => exit">>, status |-> 0]
  ELSE [log |-> IF nerr = 0
                THEN <<"all cleaned => exit", "NOT all cleaned => exit">>
                ELSE <<"NOT all cleaned => exit">>,
        status |-> NotExited]

\* The lines Stop logs after wg.Wait(), and the status it exits with when
\* exit is set: `if len(errorsChan) == 0 { log; if exit { os.Exit(0) } }`,
\* then `log; if exit { os.Exit(1) }`.
Aggregate(nerr, exit) ==
  IF nerr = 0
  THEN IF exit
       THEN [log |-> <<"all cleaned => exit">>, status |-> 0]
       ELSE [log |-> <<"all cleaned => exit", "NOT all cleaned => exit">>,
             status |-> NotExited]
  ELSE [log |-> <<"NOT all cleaned => exit">>,
        status |-> IF exit THEN 1 ELSE NotExited]

\* Variant of StopFinish: Stop goes on to the aggregation without wg.Wait().
StopFinish_NoWait(c) ==
  /\ spc[c] = "wait"
  /\ exitStatus = NotExited
  /\ LET a == Aggregate(Cardinality(errorsChan[c]), sexit[c]) IN
     /\ stopLog' = [stopLog EXCEPT ![c] = a.log]
     /\ exitStatus' = a.status
     /\ pc' = IF a.status # NotExited THEN "exited"
              ELSE IF c = "main" THEN "idle" ELSE pc
  /\ spc' = [spc EXCEPT ![c] = "none"]
  /\ sexit' = [sexit EXCEPT ![c] = FALSE]
  /\ UNCHANGED <<regVars, idx, lastPanic, stopped, tasks, errorsChan, errorsCap,
                 wg, cleanCalls, cleaned>>

\* Stop: wg.Wait() returns, then the aggregation; Stop returns to its caller
\* or ends the process.
StopFinish(c) ==
  /\ spc[c] = "wait"
  /\ exitStatus = NotExited
  /\ wg[c] = 0
  /\ LET a == Aggregate(Cardinality(errorsChan[c]), sexit[c]) IN
     /\ stopLog' = [stopLog EXCEPT ![c] = a.log]
     /\ exitStatus' = a.status
     /\ pc' = IF a.status # NotExited THEN "exited"
              ELSE IF c = "main" THEN "idle" ELSE pc
  /\ spc' = [spc EXCEPT ![c] = "none"]
  /\ sexit' = [sexit EXCEPT ![c] = FALSE]
  /\ UNCHANGED <<regVars, idx, lastPanic, stopped, tasks, errorsChan, errorsCap,
                 wg, cleanCalls, cleaned>>

\* WithCleanBeforeShutdown(maxDuration, sig...): starts a goroutine that
\* makes its channel, calls signal.Notify and waits on `<-c`.  Nothing is
\* tested before the goroutine is started; l is the goroutine started by this
\* call, "sig" for the first call.
WithCleanBeforeShutdown(l) ==
  /\ pc = "idle"
  /\ spc[l] = "none"
  /\ l = "sig" \/ spc["sig"] # "none"
  /\ spc' = [spc EXCEPT ![l] = "listen"]
  /\ lastPanic' = NoPanic
  /\ UNCHANGED <<regVars, pc, idx, stopped, sexit, tasks, errorsChan, errorsCap, wg,
                 cleanCalls, cleaned, stopLog, exitStatus>>

\* One of the signals arrives: the runtime delivers it to every channel
\* registered with signal.Notify, and each listener's `s := <-c` receives it;
\* the listener goes on to `i.Stop(maxDuration, true)`.
SignalArrives ==
  /\ \E l \in Listeners : spc[l] = "listen"
  /\ exitStatus = NotExited
  /\ spc' = [c \in Threads |-> IF c \in Listeners /\ spc[c] = "listen" THEN "guard" ELSE spc[c]]
  /\ UNCHANGED <<regVars, pc, idx, lastPanic, stopped, sexit, tasks, errorsChan, errorsCap,
                 wg, cleanCalls, cleaned, stopLog, exitStatus>>

\* Stop's guard `if i.stopped { ...; return }` in listener l: a stopped
\* container logs the diagnostic, Stop returns and the listener goroutine ends.
SignalStopGuard(l) ==
  /\ spc[l] = "guard"
  /\ exitStatus = NotExited
  /\ IF stopped
     THEN /\ stopLog' = [stopLog EXCEPT ![l] = <<"Stop already called">>]
          /\ spc' = [spc EXCEPT ![l] = "returned"]
          /\ UNCHANGED sexit
     ELSE /\ stopLog' = [stopLog EXCEPT ![l] = <<>>]
          /\ sexit' = [sexit EXCEPT ![l] = TRUE]
          /\ spc' = [spc EXCEPT ![l] = "launch"]
  /\ UNCHANGED <<regVars, pc, idx, lastPanic, stopped, tasks, errorsChan, errorsCap, wg,
                 cleanCalls, cleaned, exitStatus>>

\* ------------------------------------------------------------ specification
Next ==
  \/ \E v \in Instances : WithObject(v)
  \/ \E name \in Names, v \in Instances : WithNamedObject(name, v)
  \/ InitializeGraph
  \/ InjectObject
  \/ InitSkip
  \/ InitHookOk
  \/ InitHookErr
  \/ \E exit \in BOOLEAN : StopGuard(exit)
  \/ StopLaunch("main")
  \/ \E t \in DOMAIN tasks : HookCall(t)
  \/ \E t \in DOMAIN tasks : HookReturnOk(t)
  \/ \E t \in DOMAIN tasks : HookReturnErr(t)
  \/ \E t \in DOMAIN tasks : SelectError(t)
  \/ \E t \in DOMAIN tasks : SelectDone(t)
  \/ \E t \in DOMAIN tasks : TimerFire(t)
  \/ \E t \in DOMAIN tasks : SelectTimeout(t)
  \/ \E t \in DOMAIN tasks : TaskReport(t)
  \/ StopFinish("main")

Spec == Init /\ [][Next]_vars

\* The container with signal-triggered shutdown, used the way the package's
\* demo program uses it: the caller registers its objects with WithObject (a
\* Logger, and a Service that has Init and Clean hooks as the demo's
\* EmailSender has), starts the listener with WithCleanBeforeShutdown, and
\* from then on only calls InitializeGraph and Stop; the listener goroutine
\* runs beside the caller.
DemoObjects == {2, 4}

CallerSetsUp ==
  /\ spc["sig"] = "none"
  /\ \E v \in DemoObjects : WithObject(v)

CallerRuns ==
  /\ spc["sig"] # "none"
  /\ \/ InitializeGraph
     \/ InjectObject
     \/ InitSkip
     \/ InitHookOk
     \/ InitHookErr
     \/ \E exit \in BOOLEAN : StopGuard(exit)
     \/ StopLaunch("main")
     \/ StopFinish("main")

CleanupRuns ==
  \E t \in DOMAIN tasks :
    \/ HookCall(t)
    \/ HookReturnOk(t)
    \/ HookReturnErr(t)
    \/ SelectError(t)
    \/ SelectDone(t)
    \/ TimerFire(t)
    \/ SelectTimeout(t)
    \/ TaskReport(t)

ListenerRuns ==
  \/ SignalArrives
  \/ SignalStopGuard("sig")
  \/ StopLaunch("sig")
  \/ StopFinish("sig")

NextSignal ==
  \/ CallerSetsUp
  \/ WithCleanBeforeShutdown("sig")
  \/ CallerRuns
  \/ CleanupRuns
  \/ ListenerRuns

SignalSpec == Init /\ [][NextSignal]_vars

\* What the Go scheduler and runtime guarantee to a Stop call in progress:
\* a goroutine that can run does run, and a timer delivers.  Nothing makes a
\* Clean() hook return, a signal arrive, or the caller call anything.
TaskIds == Threads \X (1..MaxObjects)

StopProgress(c) == WF_vars(StopLaunch(c)) /\ WF_vars(StopFinish(c))

TaskProgress ==
  \A t \in TaskIds :
    /\ WF_vars(HookCall(t))
    /\ WF_vars(TimerFire(t))
    /\ WF_vars(SelectTimeout(t))
    /\ WF_vars(TaskReport(t))

SignalFairSpec ==
  /\ SignalSpec
  /\ WF_vars(SignalStopGuard("sig"))
  /\ StopProgress("sig")
  /\ StopProgress("main")
  /\ TaskProgress

\* The container armed more than once: the caller registers its objects,
\* calls WithCleanBeforeShutdown once or twice and InitializeGraph; each call
\* of WithCleanBeforeShutdown has started its own listener goroutine, and the
\* listeners run beside the caller.  The caller itself does not call Stop.
CallerWires ==
  /\ spc["sig"] # "none"
  /\ \/ InitializeGraph
     \/ InjectObject
     \/ InitSkip
     \/ InitHookOk
     \/ InitHookErr

ListenersRun ==
  \/ SignalArrives
  \/ \E l \in Listeners : SignalStopGuard(l)
  \/ \E l \in Listeners : StopLaunch(l)
  \/ \E l \in Listeners : StopFinish(l)

NextArming ==
  \/ CallerSetsUp
  \/ \E l \in Listeners : WithCleanBeforeShutdown(l)
  \/ CallerWires
  \/ CleanupRuns
  \/ ListenersRun

ArmingSpec == Init /\ [][NextArming]_vars

\* The container without a signal listener, with the scheduling Stop relies
\* on: the goroutines of Stop and of its tasks get to run, and an armed timer
\* delivers.  Nothing is assumed about Clean hooks returning, nor about what
\* the caller does outside Stop.
StopFairSpec == Spec /\ StopProgress("main") /\ TaskProgress

\* ------------------------------------------------------- auxiliary operators
\* The value found in a struct value by following a path of field names.
RECURSIVE ValueAt(_, _)
ValueAt(val, path) ==
  IF path = <<>> THEN val ELSE ValueAt(val[Head(path)], Tail(path))

\* The struct type found in struct type T by following a path of field names.
RECURSIVE TypeAt(_, _)
TypeAt(T, path) ==
  IF path = <<>> THEN T ELSE TypeAt(FieldOf(T, Head(path)).type, Tail(path))

\* The panics of the three phases.
RegistrationConflict == {"TypeExists", "NameExists", "NoName"}

MissingDependency == "NoCandidates"

AmbiguousDependency == "ManyCandidates"

WiringPanics == {"NoCandidates", "ManyCandidates", "ErrorSetting"}

\* Registry indices of the unnamed objects whose type is assignable to fld.
UnnamedPool(fld) ==
  { k \in 1..Len(objects) :
      objects[k].Name = "" /\ AssignableTo(TypeOf(objects[k].Value), fld.type) }

\* Registry indices of the objects registered under name.
NamedPool(name) == { k \in 1..Len(objects) : objects[k].Name = name }

\* The field an event of the object being wired is about.
EventField(root, e) == FieldOf(TypeAt(ElemOf(TypeOf(root)), e.path), e.field)

\* The registered value behind the only index of a one-element pool.
Only(pool) == objects[CHOOSE k \in pool : TRUE].Value

\* ------------------------------------------------------------------- claims

\* C1: in every reachable state the registry holds at most one unnamed
\* object per concrete type and at most one named object per name, whatever
\* the types; named entries do not count against the unnamed slot of a type.
C1_RegistryUnique ==
  \A j, k \in 1..Len(objects) :
    j # k =>
      /\ (objects[j].Name = "" /\ objects[k].Name = "")
           => TypeOf(objects[j].Value) # TypeOf(objects[k].Value)
      /\ (objects[j].Name # "" /\ objects[k].Name # "")
           => objects[j].Name # objects[k].Name

\* C1 witness: an unnamed and a named object of one type are registered
\* together.
C1_Witness ==
  \E j, k \in 1..Len(objects) :
    /\ objects[j].Name = "" /\ objects[k].Name # ""
    /\ objects[j].Value # objects[k].Value
    /\ TypeOf(objects[j].Value) = TypeOf(objects[k].Value)

\* C2: a registration that violates a constraint (unnamed type taken, name
\* taken, empty name) panics with a registration conflict and leaves the
\* object sequence as it was; any other registration appends exactly one
\* entry at the end and changes no earlier entry.
C2_RegistrationContract ==
  [][ /\ \A v \in Instances :
           WithObject(v) =>
             IF \E k \in 1..Len(objects) :
                  objects[k].Name = "" /\ TypeOf(objects[k].Value) = TypeOf(v)
             THEN objects' = objects /\ lastPanic'.kind \in RegistrationConflict
             ELSE /\ objects' = Append(objects, [Name |-> "", Value |-> v])
                  /\ lastPanic' = NoPanic
      /\ \A name \in Names, v \in Instances :
           WithNamedObject(name, v) =>
             IF name = "" \/ \E k \in 1..Len(objects) : objects[k].Name = name
             THEN objects' = objects /\ lastPanic'.kind \in RegistrationConflict
             ELSE /\ objects' = Append(objects, [Name |-> name, Value |-> v])
                  /\ lastPanic' = NoPanic
    ]_vars

\* C2 witness: a registration was refused and the registry kept its one
\* entry.
C2_Witness == lastPanic.kind \in {"TypeExists", "NameExists"} /\ Len(objects) = 1

\* C3: for an unnamed-kind field the candidates are exactly the unnamed
\* registered values of an assignable type: none panics with
\* MissingDependency naming owner, field and type, several panic with
\* AmbiguousDependency, and exactly one is assigned to the field.
C3_UnnamedResolution ==
  [][ InjectObject =>
        \A n \in 1..Len(wireLog') :
          LET e == wireLog'[n]
              v == objects[idx].Value
              fld == EventField(v, e)
              owner == TypeAt(ElemOf(TypeOf(v)), e.path)
              pool == UnnamedPool(fld)
          IN fld.tag = "" =>
               /\ pool = {} =>
                    /\ e.act = MissingDependency
                    /\ lastPanic' =
                         [Panic(MissingDependency, owner, fld.name, fld.type, 0)
                            EXCEPT !.obj = idx]
               /\ Cardinality(pool) > 1 =>
                    /\ e.act = AmbiguousDependency
                    /\ lastPanic' =
                         [Panic(AmbiguousDependency, owner, fld.name, fld.type,
                                Cardinality(pool)) EXCEPT !.obj = idx]
               /\ Cardinality(pool) = 1 =>
                    /\ e.act = "set"
                    /\ (e.path = <<>> \/ lastPanic'.kind = "none")
                         => ValueAt(heap'[v], Append(e.path, e.field)) = Only(pool)
    ]_vars

\* C3 witness: an unnamed-kind Cleaner field was assigned the one unnamed
\* Cleaner while a named object of an assignable type is registered too.
C3_Witness ==
  /\ \E n \in 1..Len(wireLog) : wireLog[n].field = "C" /\ wireLog[n].act = "set"
  /\ \E j, k \in 1..Len(objects) :
       /\ objects[j].Name = "" /\ objects[j].Value = 3 /\ heap[3]["C"] = 3
       /\ objects[k].Name # "" /\ IsCleaner(objects[k].Value)

RECURSIVE LoggerFieldValues(_, _)
LoggerFieldValues(T, val) ==
  UNION { IF Fields(T)[k].found /\ Fields(T)[k].tag = "inline"
          THEN LoggerFieldValues(Fields(T)[k].type, val[Fields(T)[k].name])
          ELSE IF Fields(T)[k].found /\ Fields(T)[k].tag = "" /\ Fields(T)[k].type = "*Logger"
          THEN {val[Fields(T)[k].name]}
          ELSE {} : k \in 1..Len(Fields(T)) }

\* C5: after a successful wiring every unnamed-kind *Logger field reachable
\* through any nesting of inline fields of any registered object refers to
\* the one registered unnamed Logger instance.
C5_InlineSharesByIdentity ==
  pc = "init" =>
    \A k \in 1..Len(objects) :
      \A x \in LoggerFieldValues(ElemOf(TypeOf(objects[k].Value)), heap[objects[k].Value]) :
        \E j \in 1..Len(objects) :
          objects[j].Name = "" /\ TypeOf(objects[j].Value) = "*Logger" /\ objects[j].Value = x

\* C5 witness: wiring succeeded and both levels of the Service hold the
\* registered Logger 2.
C5_Witness ==
  /\ pc = "init"
  /\ \E k \in 1..Len(objects) : objects[k].Value = 4
  /\ heap[4]["Mid"]["L"] = 2
  /\ heap[4]["Mid"]["Inner"]["L"] = 2

\* The wiring loop of InitializeGraph run to its end over a registry objs,
\* from object n on: the heap it leaves and the panic that stopped it.
RECURSIVE WireAll(_, _, _)
WireAll(objs, hp, n) ==
  IF n > Len(objs)
  THEN [heap |-> hp, panic |-> NoPanic]
  ELSE LET v == objs[n].Value
           r == inject(objs, hp, v)
           hp2 == [hp EXCEPT ![v] = r.val]
       IN IF r.panic.kind # "none"
          THEN [heap |-> hp2, panic |-> r.panic]
          ELSE WireAll(objs, hp2, n + 1)

\* The registries that hold the entries of objs in another order.
Reorderings(objs) ==
  { [k \in 1..Len(objs) |-> objs[p[k]]] : p \in Permutations(1..Len(objs)) }

\* C6: wiring does not depend on the registration order: registered in any
\* other order the same objects get the same verdict and, on success, the
\* same field values; a field may take an object registered after its owner.
C6_OrderIndependent ==
  /\ pc = "init" =>
       \A objs \in Reorderings(objects) :
         /\ WireAll(objs, heap, 1).panic.kind = "none"
         /\ WireAll(objs, heap, 1).heap = heap
  /\ (pc = "idle" /\ lastPanic.kind \in WiringPanics) =>
       \A objs \in Reorderings(objects) : WireAll(objs, heap, 1).panic.kind # "none"

\* C6 witness: wiring succeeded and the Service, registered first, holds
\* the Logger registered after it.
C6_Witness ==
  /\ pc = "init"
  /\ Len(objects) = 2
  /\ objects[1].Value = 4
  /\ TypeOf(objects[2].Value) = "*Logger"
  /\ heap[4]["Mid"]["L"] = objects[2].Value

\* The registry indices up to n whose object has an Init hook, ascending.
InitSeq(objs, n) ==
  SelectSeq([k \in 1..n |-> k], LAMBDA k : IsInitializer(objs[k].Value))

\* C7: during InitializeGraph no Init hook is invoked before inject has run
\* on every registered object; the hooks of the Initializers are then invoked
\* in registration order, once each, and the other objects are skipped.
C7_InitAfterWiringInOrder ==
  /\ [](/\ pc = "inject" => initLog = <<>>
        /\ pc = "init" =>
             /\ injected = [k \in 1..Len(objects) |-> k]
             /\ initLog = InitSeq(objects, idx - 1))
  /\ [][ /\ (initLog' # initLog /\ initLog' # <<>>)
              => (pc = "init" /\ initLog' = Append(initLog, idx))
         /\ (pc = "init" /\ pc' = "idle" /\ lastPanic'.kind = "none")
              => initLog' = InitSeq(objects, Len(objects))
     ]_vars

\* C7 witness: InitializeGraph returned after invoking the hooks of both
\* registered objects, first registered first.
C7_Witness ==
  /\ pc = "idle"
  /\ lastPanic.kind = "none"
  /\ Len(objects) = 2
  /\ initLog = <<1, 2>>
  /\ objects[1].Value \in initialized /\ objects[2].Value \in initialized

\* C8: when the Init hook of the k-th object returns an error
\* InitializeGraph panics with an initialization failure naming that object;
\* no hook of a later object is invoked, the step invokes no Clean hook and
\* launches no cleanup, and the objects initialized before stay initialized.
C8_InitFailureAborts ==
  /\ []((pc = "idle" /\ lastPanic.kind = "InitError") =>
          LET k == lastPanic.obj IN
          /\ k \in 1..Len(objects)
          /\ IsInitializer(objects[k].Value)
          /\ lastPanic.owner = TypeOf(objects[k].Value)
          /\ initLog = InitSeq(objects, k)
          /\ \A j \in 1..(k - 1) :
               IsInitializer(objects[j].Value) => objects[j].Value \in initialized)
  /\ [][ (lastPanic'.kind = "InitError" /\ lastPanic' # lastPanic) =>
           /\ pc = "init" /\ pc' = "idle"
           /\ UNCHANGED <<initialized, heap, stopped, tasks, cleanCalls, cleaned>>
     ]_vars

\* C8 witness: the hook of the first of two Initializers failed and the
\* second was never invoked.
C8_Witness ==
  /\ pc = "idle"
  /\ lastPanic.kind = "InitError"
  /\ lastPanic.obj = 1
  /\ Len(objects) = 2
  /\ IsInitializer(objects[2].Value)
  /\ initLog = <<1>>
  /\ objects[2].Value \notin initialized

\* The tagged fields of a struct type in the order inject examines them:
\* declaration order, an inline field followed by the fields of its struct.
RECURSIVE DeclaredOrder(_, _, _)
DeclaredOrder(T, k, path) ==
  IF k > Len(Fields(T)) THEN <<>>
  ELSE LET fld == Fields(T)[k] IN
       IF ~fld.found THEN DeclaredOrder(T, k + 1, path)
       ELSE << [path |-> path, field |-> fld.name] >>
            \o (IF fld.tag = "inline"
                THEN DeclaredOrder(fld.type, 1, Append(path, fld.name))
                ELSE <<>>)
            \o DeclaredOrder(T, k + 1, path)

\* The registered value a resolved field was given.
Resolved(fld) == IF fld.tag = "" THEN Only(UnnamedPool(fld)) ELSE Only(NamedPool(fld.tag))

\* What C9 says of a failed inject besides the fate of the assigned fields:
\* objects in registration order, fields in declared order depth-first, the
\* first unresolvable field ends the pass with its error, nothing after it is
\* examined, no Init hook is invoked, no other object is touched.
FailFast ==
  LET v == objects[idx].Value
      order == DeclaredOrder(ElemOf(TypeOf(v)), 1, <<>>)
      n == Len(wireLog')
  IN /\ injected' = [k \in 1..idx |-> k]
     /\ n \in 1..Len(order)
     /\ \A m \in 1..n :
          wireLog'[m].path = order[m].path /\ wireLog'[m].field = order[m].field
     /\ \A m \in 1..(n - 1) : wireLog'[m].act \in {"set", "inline"}
     /\ wireLog'[n].act = lastPanic'.kind
     /\ lastPanic'.kind \in WiringPanics
     /\ lastPanic'.field = wireLog'[n].field
     /\ lastPanic'.obj = idx
     /\ pc' = "idle"
     /\ initLog' = <<>>
     /\ initialized' = initialized
     /\ \A w \in Instances \ {v} : heap'[w] = heap[w]

\* C9 as claimed: wiring is fail-fast without rollback, and every field
\* assigned before the failure keeps its assigned value.
C9_AssignedFieldsAllKept ==
  [][ (InjectObject /\ lastPanic'.kind # "none") =>
        /\ FailFast
        /\ \A m \in 1..(Len(wireLog') - 1) :
             wireLog'[m].act = "set" =>
               ValueAt(heap'[objects[idx].Value],
                       Append(wireLog'[m].path, wireLog'[m].field))
                 = Resolved(EventField(objects[idx].Value, wireLog'[m]))
    ]_vars

\* C9 amended: wiring is fail-fast without rollback, and the fields of the
\* registered object itself assigned before the failure keep their assigned
\* values; an inline substructure whose wiring the failure cuts short is left
\* as it was before the pass, the fields assigned inside it included.
C9_FailFastNoRollback ==
  [][ (InjectObject /\ lastPanic'.kind # "none") =>
        /\ FailFast
        /\ \A m \in 1..(Len(wireLog') - 1) :
             LET e == wireLog'[m]
                 v == objects[idx].Value
             IN /\ (e.act = "set" /\ e.path = <<>>) =>
                     ValueAt(heap'[v], <<e.field>>) = Resolved(EventField(v, e))
                /\ (e.act = "inline" /\ e.path = <<>>) =>
                     ValueAt(heap'[v], <<e.field>>) = ValueAt(heap[v], <<e.field>>)
    ]_vars

\* C9 witness: wiring the Store stopped at its db-tagged field after its
\* Cleaner field had been assigned, and the Cleaner field is still set.
C9_Witness ==
  /\ pc = "idle"
  /\ lastPanic.kind = "NoCandidates"
  /\ lastPanic.field = "L"
  /\ lastPanic.owner = "Store"
  /\ heap[3]["C"] = 3
  /\ heap[3]["L"] = Nil
  /\ initLog = <<>>

\* C10: stopped goes from false to true at the first stop request and is
\* never reset; a stop request made once stopped is set launches no task,
\* invokes no Clean hook and returns at once; so over any sequence of stop
\* requests made one after the other each launched task's hook is invoked at
\* most once.
C10_StopIdempotent ==
  /\ [][ /\ stopped => stopped'
         /\ (~stopped /\ stopped') => (spc["main"] = "launch" /\ spc'["main"] = "wait")
         /\ (stopped /\ \E exit \in BOOLEAN : StopGuard(exit)) =>
              /\ pc' = "idle"
              /\ stopLog'["main"] = <<"Stop already called">>
              /\ UNCHANGED <<tasks, cleanCalls, cleaned, wg, spc, errorsChan, exitStatus>>
     ]_vars
  /\ [](/\ \A v \in Instances :
             cleanCalls[v] <= Cardinality({ t \in DOMAIN tasks : tasks[t].obj = v })
        /\ (spc["main"] = "wait" \/ DOMAIN tasks # {}) => stopped)

\* C10 witness: a second stop request found the container stopped after the
\* first one had run a Clean hook, which was invoked once.
C10_Witness ==
  /\ pc = "idle"
  /\ stopLog["main"] = <<"Stop already called">>
  /\ \E v \in Instances : cleanCalls[v] = 1 /\ v \in cleaned

\* What task t reported, "none" while it has not returned from
\* cleanCleanable: "nil", or the error that went to errorsChan.
Outcome(t) ==
  IF tasks[t].outer \in {"nil", "err", "timeout"} THEN tasks[t].outer
  ELSE IF tasks[t].outer = "done"
  THEN IF \E e \in errorsChan[t[1]] : e.task = t[2]
       THEN (CHOOSE e \in errorsChan[t[1]] : e.task = t[2]).err
       ELSE "nil"
  ELSE "none"

\* Task t returns from cleanCleanable's select in this step.
LeavesSelect(t) ==
  /\ t \in DOMAIN tasks /\ t \in DOMAIN tasks'
  /\ tasks[t].outer = "select" /\ tasks'[t].outer # "select"

\* A step touches the record of at most one task that is already running.
OneTaskPerStep ==
  \A t, u \in DOMAIN tasks \cap DOMAIN tasks' :
    (t # u /\ tasks'[t] # tasks[t]) => tasks'[u] = tasks[u]

\* C11 as claimed: a task whose hook is still running when its timer expires
\* reports the timeout, and a task whose hook returned before its timer
\* expired reports the hook's own result, whatever its siblings do.
C11_SlowHookTimesOutOthersReport ==
  [][ /\ OneTaskPerStep
      /\ \A t \in DOMAIN tasks :
           LeavesSelect(t) =>
             IF tasks[t].timer = "fired"
             THEN tasks'[t].outer = "timeout"
             ELSE tasks'[t].outer = tasks[t].ret
    ]_vars

\* C11 amended: a task whose select takes its expired timer reports the
\* timeout, and this changes nothing for its siblings: each sibling's hook can
\* still run to completion and the sibling reports its own outcome, decided by
\* its own hook, timer and select alone: the hook's result when the select
\* takes the hook's completion, the timeout when it takes the expired timer.
C11_TasksIndependent ==
  /\ [][ /\ OneTaskPerStep
         /\ \A t \in DOMAIN tasks :
              LeavesSelect(t) =>
                /\ tasks'[t].outer = "timeout" => tasks[t].timer \in {"fired", "firedLate"}
                /\ tasks'[t].outer # "timeout" =>
                     tasks[t].ret # "none" /\ tasks'[t].outer = tasks[t].ret
     ]_vars
  /\ [](exitStatus = NotExited =>
          \A t \in DOMAIN tasks :
            /\ tasks[t].inner = "running" => ENABLED HookReturnOk(t) /\ ENABLED HookReturnErr(t)
            /\ (tasks[t].outer = "select" /\ tasks[t].inner = "sendDone")
                 => ENABLED SelectDone(t)
            /\ (tasks[t].outer = "select" /\ tasks[t].inner = "sendErr")
                 => ENABLED SelectError(t)
            /\ tasks[t].outer \in {"nil", "err", "timeout"} => ENABLED TaskReport(t))

\* C11 witness: one task reported the timeout while its hook is still
\* running, and a sibling whose hook returned reported success.
C11_Witness ==
  \E t, u \in DOMAIN tasks :
    /\ t # u
    /\ Outcome(t) = "timeout" /\ tasks[t].inner = "running"
    /\ tasks[u].outer = "done" /\ Outcome(u) = "nil" /\ tasks[u].obj \in cleaned

\* Task t reported success: its select took the hook's `done`.
ReportedSuccess(t) == tasks[t].outer = "done" /\ tasks[t].inner = "end"

\* C12: a stop request with termination requested ends the process with
\* status 0 exactly when every launched task reported success (also with no
\* task at all) and with status 1 when a task reported an error or the
\* timeout; the exit comes only after every task of the call has reported.
C12_ExitStatus ==
  [][ /\ (StopFinish("main") /\ sexit["main"]) => exitStatus' \in {0, 1}
      /\ (exitStatus = NotExited /\ exitStatus' # NotExited) =>
           /\ sexit["main"] /\ spc["main"] = "wait"
           /\ { t[2] : t \in TasksOf("main") } = CleanerIndices(objects)
           /\ \A t \in TasksOf("main") : tasks[t].outer = "done"
           /\ exitStatus' = 0 <=> \A t \in TasksOf("main") : ReportedSuccess(t)
           /\ exitStatus' = 1 <=>
                \E t \in TasksOf("main") : Outcome(t) \in {"err", "timeout"}
    ]_vars

\* C12 witness: the process ended with status 1 after one task had reported
\* the timeout and another one success.
C12_Witness ==
  /\ exitStatus = 1
  /\ \E t, u \in TasksOf("main") :
       Outcome(t) = "timeout" /\ ReportedSuccess(u)

\* C13: Stop is a barrier: it logs no aggregate outcome, does not end the
\* process and does not return before every task it launched has reported; so
\* when it has returned to the caller, each hook reported as success has
\* returned and what it did to its object is there.
C13_StopIsBarrier ==
  /\ [](/\ spc["main"] = "wait" => (stopLog["main"] = <<>> /\ exitStatus = NotExited)
        /\ (stopped /\ spc["main"] = "none") =>
             \A t \in TasksOf("main") :
               /\ tasks[t].outer = "done"
               /\ ReportedSuccess(t) => (tasks[t].ret = "nil" /\ tasks[t].obj \in cleaned))
  /\ [][ (spc["main"] = "wait" /\ spc'["main"] # "wait") =>
           \A t \in TasksOf("main") : tasks[t].outer = "done"
     ]_vars

\* C13 witness: Stop returned to the caller after a task reported success and
\* the object it cleaned is seen cleaned.
C13_Witness ==
  /\ pc = "idle" /\ stopped /\ spc["main"] = "none"
  /\ exitStatus = NotExited
  /\ \E t \in TasksOf("main") : ReportedSuccess(t) /\ tasks[t].obj \in cleaned

\* C14 as claimed: once the listener has received a signal and goes on to
\* Stop(maxDuration, true), the process eventually ends with status 0 or 1,
\* whatever stop requests were made before.
C14_SignalStopExits == (spc["sig"] = "guard") ~> (exitStatus \in {0, 1})

\* The latest InitializeGraph call ran to its end: inject was called on every
\* registered object without a panic and every Init hook was invoked and
\* returned nil.
ReachedInitialized ==
  /\ pc \notin {"inject", "init"}
  /\ objects # <<>>
  /\ injected = [k \in 1..Len(objects) |-> k]
  /\ \A n \in 1..Len(wireLog) : wireLog[n].act \notin WiringPanics
  /\ initLog = InitSeq(objects, Len(objects))
  /\ \A k \in 1..Len(objects) :
       IsInitializer(objects[k].Value) => objects[k].Value \in initialized

\* C15 as claimed: once InitializeGraph has completed, no operation changes
\* the number of registered objects.
C15_RegistryFixedAfterWiring ==
  [][ ReachedInitialized => Len(objects') = Len(objects) ]_vars

\* A stop request has completed: Stop set the flag and returned.
StopCompleted == stopped /\ spc["main"] = "none" /\ exitStatus = NotExited

\* C16 as claimed: the lifecycle only moves forward: once a stop request has
\* completed no object is wired and no Init hook is invoked; Clean hooks are
\* invoked only on a container that reached Initialized; and a container
\* whose wiring or initialization failed is never brought to Initialized.
C16_LifecycleForwardOnly ==
  [][ /\ StopCompleted => ~(InjectObject \/ InitHookOk \/ InitHookErr)
      /\ (\E t \in DOMAIN tasks : HookCall(t)) => ReachedInitialized
      /\ (pc = "idle" /\ lastPanic.kind \in WiringPanics \cup {"InitError"})
           => ~InitializeGraph
    ]_vars

\* C17 as claimed: a stop request made without process termination logs
\* exactly one aggregate outcome before the caller resumes: only the
\* all-clean line when every task reported success, only the not-all-clean
\* line when some task reported an error or a timeout.
C17_OneAggregateOutcome ==
  [][ (StopFinish("main") /\ ~sexit["main"]) =>
        stopLog'["main"] = IF errorsChan["main"] = {}
                           THEN <<"all cleaned => exit">>
                           ELSE <<"NOT all cleaned => exit">>
    ]_vars

\* C18 as claimed: Stop launches exactly one task per Cleaner and none for the
\* other objects, and each task's one outcome is fixed by the order of the
\* hook's return and the timer: the hook's result (nil or its error) when the
\* hook returned before the timer fired, the timeout otherwise; a hook that
\* returned an error is never reported as success.
C18_OutcomeByOrderOfEvents ==
  [][ /\ \A c \in Threads :
           StopLaunch(c) => TasksOf(c)' = {c} \X CleanerIndices(objects)
      /\ \A t \in DOMAIN tasks :
           LeavesSelect(t) =>
             /\ tasks'[t].outer =
                  IF tasks[t].ret # "none" /\ tasks[t].timer \in {"armed", "firedLate"}
                  THEN tasks[t].ret
                  ELSE "timeout"
             /\ tasks[t].ret = "err" => tasks'[t].outer # "nil"
    ]_vars

\* C18 amended: Stop launches exactly one task per Cleaner and none for the
\* other objects; each task invokes its hook at most once and reports one
\* outcome that never changes afterwards.  The outcome is success only if the
\* hook returned nil, the hook's error only if the hook returned that error,
\* and the timeout only if the timer has fired; it is the hook's result
\* whenever the select is left with the timer not yet fired.  When the hook
\* has returned and the timer has fired before the select takes either, the
\* task reports either of the two.  A hook that returned an error is never
\* reported as success.
C18_OutcomeOfTask ==
  /\ [][ /\ \A c \in Threads :
              StopLaunch(c) =>
                /\ TasksOf(c)' = {c} \X CleanerIndices(objects)
                /\ \A t \in TasksOf(c)' : tasks'[t] = NewTask(objects[t[2]].Value)
         /\ \A t \in DOMAIN tasks :
              /\ LeavesSelect(t) =>
                   /\ tasks'[t].outer = "nil" => tasks[t].ret = "nil"
                   /\ tasks'[t].outer = "err" => tasks[t].ret = "err"
                   /\ tasks'[t].outer = "timeout" => tasks[t].timer \in {"fired", "firedLate"}
                   /\ tasks[t].timer = "armed" => tasks'[t].outer = tasks[t].ret
              /\ (t \in DOMAIN tasks' /\ Outcome(t) # "none") => Outcome(t)' = Outcome(t)
              /\ (t \in DOMAIN tasks' /\ tasks[t].inner # "start") =>
                   tasks'[t].inner # "start"
         /\ cleanCalls' # cleanCalls =>
              \E t \in DOMAIN tasks :
                /\ tasks[t].inner = "start" /\ tasks'[t].inner = "running"
                /\ cleanCalls' = [cleanCalls EXCEPT ![tasks[t].obj] = @ + 1]
     ]_vars
  /\ [](\A t \in DOMAIN tasks :
          /\ tasks[t].ret = "err" => Outcome(t) \in {"none", "err", "timeout"}
          /\ Outcome(t) = "nil" => (tasks[t].ret = "nil" /\ tasks[t].inner = "end")
          /\ Outcome(t) = "err" => tasks[t].ret = "err"
          /\ tasks[t].ret # "none" => tasks[t].inner # "start")
  /\ [](\A v \in Instances :
          cleanCalls[v] =
            Cardinality({ t \in DOMAIN tasks : tasks[t].obj = v /\ tasks[t].inner # "start" }))

\* C18 witness: of two registered objects only the Cleaner got a task; its
\* hook returned an error and the task reported that error.
C18_Witness ==
  /\ \E k \in 1..Len(objects) : ~IsCleaner(objects[k].Value)
  /\ Cardinality(DOMAIN tasks) = 1
  /\ \E t \in DOMAIN tasks :
       tasks[t].ret = "err" /\ tasks[t].outer = "done" /\ Outcome(t) = "err"

\* C19: every stop request finishes, by returning or by ending the process,
\* even if Clean hooks never return: a task whose timer has fired reports,
\* reporting an outcome never blocks because errorsChan has room for one entry
\* per registered object, and so the barrier is released.
C19_StopFinishes ==
  /\ (spc["main"] \in {"launch", "wait"}) ~> (spc["main"] = "none")
  /\ \A t \in TaskIds :
       (t \in DOMAIN tasks /\ tasks[t].timer \in {"fired", "firedLate"})
         ~> (t \in DOMAIN tasks /\ tasks[t].outer = "done")
  /\ [](\A c \in Threads :
          /\ spc[c] = "wait" => errorsCap[c] = Len(objects)
          /\ Cardinality(errorsChan[c]) + Cardinality({ t \in TasksOf(c) : tasks[t].outer # "done" })
               <= errorsCap[c])
  /\ [](exitStatus = NotExited =>
          \A t \in DOMAIN tasks :
            tasks[t].outer \in {"err", "timeout"} => ENABLED TaskReport(t))

\* C19 witness: Stop has returned to its caller although a Clean hook is
\* still running: its task reported the timeout.
C19_Witness ==
  /\ stopped /\ spc["main"] = "none" /\ pc = "idle"
  /\ \E t \in TasksOf("main") :
       tasks[t].inner = "running" /\ tasks[t].outer = "done" /\ Outcome(t) = "timeout"

\* Task t has reported the timeout while its Clean hook is still running.
TimedOutRunning(t) ==
  /\ t \in DOMAIN tasks
  /\ Outcome(t) = "timeout"
  /\ tasks[t].inner = "running"

\* C20: the timeout is advisory.  After a task reported the timeout, its hook
\* invocation is left alone: no step of Stop or of the task ends it, it stops
\* running only by returning by itself, which it can do as long as the process
\* lives; and its return, with or without an error, changes neither the
\* outcome reported for the object nor what Stop aggregates and logs.
C20_TimeoutIsAdvisory ==
  /\ [](\A t \in DOMAIN tasks :
          (TimedOutRunning(t) /\ exitStatus = NotExited) =>
            ENABLED HookReturnOk(t) /\ ENABLED HookReturnErr(t))
  /\ [][ \A t \in DOMAIN tasks :
           /\ (tasks[t].inner = "running" /\ tasks'[t].inner # "running") =>
                /\ HookReturnOk(t) \/ HookReturnErr(t)
                /\ tasks'[t].ret \in {"nil", "err"}
           /\ (Outcome(t) = "timeout" /\ tasks'[t] # tasks[t]) =>
                /\ Outcome(t)' = "timeout"
                /\ tasks[t].outer = "done" =>
                     UNCHANGED <<errorsChan, wg, stopLog, exitStatus, spc>>
     ]_vars

\* C20 witness: a task reported the timeout, Stop returned with the
\* not-all-clean outcome, and afterwards the hook returned nil: the object is
\* cleaned, the report is still the timeout.
C20_Witness ==
  /\ stopped /\ spc["main"] = "none"
  /\ stopLog["main"] = <<"NOT all cleaned => exit">>
  /\ \E t \in TasksOf("main") :
       /\ Outcome(t) = "timeout"
       /\ tasks[t].ret = "nil" /\ tasks[t].inner = "sendDone"
       /\ tasks[t].obj \in cleaned

\* C21: the guard does not serialize overlapping stop requests.  The flag is
\* read in one step and set in a later one: while the caller's Stop is between
\* its guard and `i.stopped = true`, the flag is still false and the listener's
\* Stop passes the guard too (and the other way round), so both launch their
\* tasks.  The flag is written only by Stop's own assignment, never by a
\* cleanup task, and never goes back to false.
C21_GuardDoesNotSerialize ==
  /\ []((spc["main"] = "launch" /\ spc["sig"] = "guard" /\ exitStatus = NotExited) =>
          /\ ~stopped
          /\ ENABLED (SignalStopGuard("sig") /\ spc'["sig"] = "launch"))
  /\ []((spc["sig"] = "launch" /\ spc["main"] = "none" /\ pc = "idle" /\ ~stopped) =>
          ENABLED (StopGuard(FALSE) /\ spc'["main"] = "launch"))
  /\ [][ /\ stopped' # stopped =>
              /\ stopped' = TRUE
              /\ \E c \in Threads : StopLaunch(c)
         /\ (\E t \in DOMAIN tasks : tasks'[t] # tasks[t]) /\ DOMAIN tasks' = DOMAIN tasks
              => stopped' = stopped
     ]_vars

\* C21 witness: the caller's Stop and the signal-triggered Stop both passed
\* the guard and launched a task for the same object, and its Clean hook was
\* invoked twice.
C21_Witness ==
  \E t \in TasksOf("main"), u \in TasksOf("sig") :
    /\ tasks[t].obj = tasks[u].obj
    /\ tasks[t].inner # "start" /\ tasks[u].inner # "start"
    /\ cleanCalls[tasks[t].obj] = 2

\* C22 as claimed: whatever calls of WithCleanBeforeShutdown were made, the
\* container has at most one listener, and so at most one stop request is
\* triggered by a signal.
C22_ArmedAtMostOnce ==
  /\ Cardinality({ l \in Listeners : spc[l] = "listen" }) <= 1
  /\ Cardinality({ l \in Listeners : spc[l] \notin {"none", "listen"} }) <= 1

\* The inner goroutine of task t is waiting in a send on errorChan or done.
BlockedInSend(t) == tasks[t].inner \in {"sendErr", "sendDone"}

\* C23 as claimed: once a stop request has returned and every Clean hook it
\* invoked has returned, no goroutine started by Stop is left waiting on the
\* done or error channel: each has terminated.
C23_NoGoroutineLeftBlocked ==
  (StopCompleted /\ \A t \in TasksOf("main") : tasks[t].ret # "none") =>
    \A t \in TasksOf("main") : ~BlockedInSend(t) /\ tasks[t].inner = "end"

\* The fields of a value of struct type T that carry no inject tag, with
\* their values, by path; the fields of an inline-tagged substructure count
\* as fields of the value.
RECURSIVE UntaggedValues(_, _, _)
UntaggedValues(T, val, path) ==
  UNION { IF ~Fields(T)[k].found
          THEN { <<Append(path, Fields(T)[k].name), val[Fields(T)[k].name]>> }
          ELSE IF Fields(T)[k].tag = "inline"
          THEN UntaggedValues(Fields(T)[k].type, val[Fields(T)[k].name],
                              Append(path, Fields(T)[k].name))
          ELSE {}
        : k \in 1..Len(Fields(T)) }

\* C24 as claimed: wiring writes only tagged fields: no step changes the
\* value of an untagged field of an instance, the untagged fields inside an
\* inline substructure included, and no registry entry is replaced.
C24_UntaggedFieldsKept ==
  [][ /\ \A v \in Instances :
           UntaggedValues(ElemOf(TypeOf(v)), heap'[v], <<>>)
             = UntaggedValues(ElemOf(TypeOf(v)), heap[v], <<>>)
      /\ \A k \in 1..Len(objects) : k <= Len(objects') /\ objects'[k] = objects[k]
    ]_vars

====
